---- MODULE Spec2Model ----
(***************************************************************************)
(* A model of scripts/s3_upload.py: the .env loader, the configuration     *)
(* resolution of the two operations, upload_to_s3, test_s3_connection and  *)
(* the command-line entry point.                                           *)
(*                                                                         *)
(* A Python str is a sequence of atoms.  An atom is one of the characters  *)
(* the code looks at (" ", "=", "#", "/", ".") or an opaque fragment that  *)
(* contains none of them ("S3_REGION", "tmp", "backup").  None is a value  *)
(* different from every str.                                               *)
(***************************************************************************)
EXTENDS Integers, Sequences, FiniteSets, TLC

VARIABLES
    mode,        \* which program is running: "cli", "load", "resolve", "key"
    pc,          \* position in the running program
    argv,        \* sys.argv (argv[1] is the script name)
    envFile,     \* /opt/notes/.env: [exists, lines]
    environ,     \* os.environ, a dict
    disk,        \* the local paths that exist
    file_path,   \* upload_to_s3's file_path
    s3_prefix,   \* upload_to_s3's s3_prefix
    cfg,         \* the resolved configuration of the running operation
    cfgTest,     \* "resolve" only: test_s3_connection's resolution of the same input
    clients,     \* the clients boto3.client has built, in order
    calls,       \* the calls made on the client, in order
    requests,    \* the number of requests sent to the remote service
    store,       \* the objects written to the remote store in this run
    stdout,      \* the messages printed
    ret,         \* the operation's return value: "none", "True", "False"
    exc,         \* the exception propagating out of the operation, or "none"
    exitCode,    \* the process exit code, -1 while running
    env_vars,    \* load_env_file's env_vars
    line,        \* "load" only: the line read last
    nread,       \* "load" only: the number of lines read
    s3_key,      \* the object key computed last
    op,          \* the operation __main__ dispatched to, or "none"
    outcomes     \* how the calls into boto3 ended, in order

vars == <<mode, pc, argv, envFile, environ, disk, file_path, s3_prefix, cfg,
          cfgTest, clients, calls, requests, store, stdout, ret, exc, exitCode,
          env_vars, line, nread, s3_key, op, outcomes>>

----------------------------------------------------------------------------
(* Python values *)

None == <<"None">>

EmptyStr == << >>

\* bool(x) of a str or None
Truthy(x) == x # None /\ x # EmptyStr

\* a or b
PyOr(a, b) == IF Truthy(a) THEN a ELSE b

\* all([...]) of strs and Nones
PyAll(xs) == \A i \in 1..Len(xs) : Truthy(xs[i])

\* str.isspace of one atom
Whitespace == {" ", "\t", "\n"}

RECURSIVE LStrip(_)
LStrip(s) ==
    IF s # << >> /\ Head(s) \in Whitespace THEN LStrip(Tail(s)) ELSE s

RECURSIVE RStrip(_)
RStrip(s) ==
    IF s # << >> /\ s[Len(s)] \in Whitespace
    THEN RStrip(SubSeq(s, 1, Len(s) - 1))
    ELSE s

\* s.strip()
Strip(s) == RStrip(LStrip(s))

\* s.startswith(c) for a one-character c
StartsWith(s, c) == s # << >> /\ Head(s) = c

\* the index of the first sep in s from position i on, 0 when there is none
RECURSIVE Find(_, _, _)
Find(s, sep, i) ==
    IF i > Len(s) THEN 0
    ELSE IF s[i] = sep THEN i
    ELSE Find(s, sep, i + 1)

\* The index of the last sep in s up to position i, 0 when there is none.
RECURSIVE FindLast(_, _, _)
FindLast(s, sep, i) ==
    IF i < 1 THEN 0
    ELSE IF s[i] = sep THEN i
    ELSE FindLast(s, sep, i - 1)

\* A faulty variant of Partition: s.rpartition(sep)-like, it splits at the
\* last sep instead of the first.
PartitionAtLast(s, sep) ==
    LET i == FindLast(s, sep, Len(s)) IN
    IF i = 0 THEN <<s, EmptyStr, EmptyStr>>
    ELSE <<SubSeq(s, 1, i - 1), <<sep>>, SubSeq(s, i + 1, Len(s))>>

\* s.partition(sep): <<before, sep, after>>, or <<s, "", "">> without a sep
Partition(s, sep) ==
    LET i == Find(s, sep, 1) IN
    IF i = 0 THEN <<s, EmptyStr, EmptyStr>>
    ELSE <<SubSeq(s, 1, i - 1), <<sep>>, SubSeq(s, i + 1, Len(s))>>

\* A dict is a set of <<key, value>> pairs with distinct keys.
EmptyDict == {}

DictKeys(d) == {p[1] : p \in d}

\* d.get(k, default)
DictGet(d, k, default) ==
    IF k \in DictKeys(d) THEN (CHOOSE p \in d : p[1] = k)[2] ELSE default

\* d[k] = v
DictSet(d, k, v) == {p \in d : p[1] # k} \cup {<<k, v>>}

----------------------------------------------------------------------------
(* load_env_file *)

\* the body of the loop over the lines of the file
ProcessLine(vars_, raw) ==
    LET l == Strip(raw) IN
    IF l # EmptyStr /\ ~StartsWith(l, "#")
    THEN LET parts == Partition(l, "=") IN
         DictSet(vars_, Strip(parts[1]), Strip(parts[3]))
    ELSE vars_

RECURSIVE ProcessLines(_, _)
ProcessLines(vars_, lines) ==
    IF lines = << >> THEN vars_
    ELSE ProcessLines(ProcessLine(vars_, Head(lines)), Tail(lines))

\* load_env_file(): the mapping read from a file [exists, lines]
load_env_file(f) ==
    IF f.exists THEN ProcessLines(EmptyDict, f.lines) ELSE EmptyDict

----------------------------------------------------------------------------
(* Configuration resolution *)

S3_ACCESS_KEY_ID == <<"S3_ACCESS_KEY_ID">>
S3_SECRET_ACCESS_KEY == <<"S3_SECRET_ACCESS_KEY">>
S3_BUCKET_NAME == <<"S3_BUCKET_NAME">>
S3_ENDPOINT_URL == <<"S3_ENDPOINT_URL">>
S3_REGION == <<"S3_REGION">>

RequiredKeys == {S3_ACCESS_KEY_ID, S3_SECRET_ACCESS_KEY, S3_BUCKET_NAME}

FallbackKeys == RequiredKeys \cup {S3_ENDPOINT_URL}

ConfigKeys == <<S3_ACCESS_KEY_ID, S3_SECRET_ACCESS_KEY, S3_BUCKET_NAME,
                S3_ENDPOINT_URL, S3_REGION>>

DefaultRegion == <<"ru-central1">>

\* os.getenv(k)
getenv(osenv, k) == DictGet(osenv, k, None)

\* upload_to_s3: the five assignments from env and os.getenv
ResolveUpload(env, osenv) ==
    [access_key   |-> PyOr(DictGet(env, S3_ACCESS_KEY_ID, None),
                           getenv(osenv, S3_ACCESS_KEY_ID)),
     secret_key   |-> PyOr(DictGet(env, S3_SECRET_ACCESS_KEY, None),
                           getenv(osenv, S3_SECRET_ACCESS_KEY)),
     bucket_name  |-> PyOr(DictGet(env, S3_BUCKET_NAME, None),
                           getenv(osenv, S3_BUCKET_NAME)),
     endpoint_url |-> PyOr(DictGet(env, S3_ENDPOINT_URL, None),
                           getenv(osenv, S3_ENDPOINT_URL)),
     region       |-> DictGet(env, S3_REGION, DefaultRegion)]

\* A faulty variant of ResolveTest: the environment takes precedence over
\* the config file for the bucket name.
ResolveTestEnvFirst(env, osenv) ==
    [ResolveUpload(env, osenv) EXCEPT
        !.bucket_name = PyOr(getenv(osenv, S3_BUCKET_NAME),
                             DictGet(env, S3_BUCKET_NAME, None))]

\* test_s3_connection: the five assignments from env and os.getenv
ResolveTest(env, osenv) ==
    [access_key   |-> PyOr(DictGet(env, S3_ACCESS_KEY_ID, None),
                           getenv(osenv, S3_ACCESS_KEY_ID)),
     secret_key   |-> PyOr(DictGet(env, S3_SECRET_ACCESS_KEY, None),
                           getenv(osenv, S3_SECRET_ACCESS_KEY)),
     bucket_name  |-> PyOr(DictGet(env, S3_BUCKET_NAME, None),
                           getenv(osenv, S3_BUCKET_NAME)),
     endpoint_url |-> PyOr(DictGet(env, S3_ENDPOINT_URL, None),
                           getenv(osenv, S3_ENDPOINT_URL)),
     region       |-> DictGet(env, S3_REGION, DefaultRegion)]

\* A faulty variant of UploadCredentialsOk: the bucket name is not checked.
UploadCredentialsOkNoBucket(c) == PyAll(<<c.access_key, c.secret_key>>)

\* upload_to_s3: all([access_key, secret_key, bucket_name])
UploadCredentialsOk(c) == PyAll(<<c.access_key, c.secret_key, c.bucket_name>>)

\* test_s3_connection: all([access_key, secret_key, bucket_name])
TestCredentialsOk(c) == PyAll(<<c.access_key, c.secret_key, c.bucket_name>>)

\* the configuration before it is resolved
NoCfg ==
    [access_key |-> None, secret_key |-> None, bucket_name |-> None,
     endpoint_url |-> None, region |-> None]

\* boto3.client('s3', aws_access_key_id=..., ...): the client's parameters
BuildClient(c) ==
    [service               |-> "s3",
     aws_access_key_id     |-> c.access_key,
     aws_secret_access_key |-> c.secret_key,
     endpoint_url          |-> c.endpoint_url,
     region_name           |-> c.region]

----------------------------------------------------------------------------
(* The object key *)

\* The components of a POSIX path as pathlib keeps them: the segments
\* between "/" that are neither empty nor ".".
RECURSIVE PathParts(_, _, _)
PathParts(path, cur, acc) ==
    LET keep(seg) == IF seg = << >> \/ seg = <<".">> THEN acc
                     ELSE Append(acc, seg) IN
    IF path = << >> THEN keep(cur)
    ELSE IF Head(path) = "/" THEN PathParts(Tail(path), << >>, keep(cur))
    ELSE PathParts(Tail(path), Append(cur, Head(path)), acc)

\* Path(file_path).name
PathName(path) ==
    LET parts == PathParts(path, << >>, << >>) IN
    IF parts = << >> THEN EmptyStr ELSE parts[Len(parts)]

\* A faulty variant of S3Key: a "/" is put between the prefix and the name.
S3KeySeparated(prefix, path) == prefix \o <<"/">> \o PathName(path)

\* f"{s3_prefix}{file_name}"
S3Key(prefix, path) == prefix \o PathName(path)

----------------------------------------------------------------------------
(* Exceptions *)

\* The exception classes a call can raise are FileNotFoundError,
\* NoCredentialsError, ClientError and OtherError: any subclass of Exception
\* that is none of the three the script names.

\* whether "except h" catches an exception of class e
Catches(h, e) == h = e \/ h = "Exception"

\* the index of the first except clause that catches e, 0 when none does
RECURSIVE HandlerFrom(_, _, _)
HandlerFrom(handlers, e, i) ==
    IF i > Len(handlers) THEN 0
    ELSE IF Catches(handlers[i], e) THEN i
    ELSE HandlerFrom(handlers, e, i + 1)

\* the except clause of `handlers` that handles e, "none" when e propagates
Handler(handlers, e) ==
    LET i == HandlerFrom(handlers, e, 1) IN
    IF i = 0 THEN "none" ELSE handlers[i]

\* upload_to_s3: the except clause of the try around boto3.client
UploadClientHandlers == <<"Exception">>

\* A faulty variant of UploadHandlers: no clause for FileNotFoundError.
UploadHandlersNoFileNotFound == <<"NoCredentialsError", "ClientError">>

\* upload_to_s3: the except clauses of the try around upload_file
UploadHandlers == <<"FileNotFoundError", "NoCredentialsError", "ClientError">>

\* A faulty variant of TestHandlers: no generic except clause.
TestHandlersClientErrorOnly == <<"ClientError">>

\* test_s3_connection: the except clauses of its try
TestHandlers == <<"ClientError", "Exception">>

\* upload_to_s3: what the except clause h prints
UploadMessage(h) ==
    CASE h = "FileNotFoundError"  -> "ERROR: File not found"
      [] h = "NoCredentialsError" -> "ERROR: Invalid S3 credentials"
      [] h = "ClientError"        -> "ERROR: S3 upload failed"

\* e.response.get('Error', {}).get('Code', 'Unknown')
ErrorCode(response) ==
    DictGet(DictGet(response, "Error", EmptyDict), "Code", "Unknown")

\* test_s3_connection: what the except clause h prints for an error response
TestMessage(h, response) ==
    IF h = "ClientError"
    THEN LET error_code == ErrorCode(response) IN
         IF error_code = "404" THEN "ERROR: Bucket not found"
         ELSE IF error_code = "403" THEN "ERROR: Access denied to bucket"
         ELSE "ERROR: S3 connection failed"
    ELSE "ERROR: Failed to connect to S3"

----------------------------------------------------------------------------
(* The inputs of a run *)

ScriptName == <<"s3_upload", ".", "py">>

TestFlag == <<"--test">>

\* the file paths and prefixes given on the command line
CliPaths == {<<"/", "tmp", "/", "backup", ".", "tar", ".", "gz">>}

CliPrefixes == {<<"daily", "/">>}

\* sys.argv of the invocation forms: no argument, --test, <file>,
\* <file> <prefix>
ArgvForms ==
    {<<ScriptName>>, <<ScriptName, TestFlag>>}
    \cup {<<ScriptName, p>> : p \in CliPaths}
    \cup {<<ScriptName, p, x>> : p \in CliPaths, x \in CliPrefixes}

\* How a key stands in the config file or in the process environment.
KeyStates == {"absent", "empty", "value"}

\* the value the config file gives key k, and the one the environment gives
FileValue(k) == IF k = S3_SECRET_ACCESS_KEY THEN <<"file", "=", "=">> ELSE <<"file">>

EnvValue(k) == <<"env">>

\* the config file's line for key k
FileLine(k, st) ==
    IF st = "empty" THEN k \o <<"=">>
    ELSE <<" ">> \o k \o <<" ", "=", " ">> \o FileValue(k) \o <<" ", "\n">>

RECURSIVE FileLines(_, _)
FileLines(choice, i) ==
    IF i > Len(ConfigKeys) THEN << >>
    ELSE IF choice[i] = "absent" THEN FileLines(choice, i + 1)
    ELSE <<FileLine(ConfigKeys[i], choice[i])>> \o FileLines(choice, i + 1)

\* a config file: a comment, a blank line, then the lines of the keys
ConfigFile(choice) ==
    [exists |-> TRUE,
     lines  |-> <<<<"#", " ", "S3", " ", "settings", "\n">>, <<"\n">>>>
                \o FileLines(choice, 1)]

NoFile == [exists |-> FALSE, lines |-> << >>]

\* a dict holding the keys a choice gives, with the values val gives them
ChoiceDict(choice, val(_)) ==
    {<<ConfigKeys[i], IF choice[i] = "empty" THEN EmptyStr ELSE val(ConfigKeys[i])>> :
        i \in {j \in 1..Len(ConfigKeys) : choice[j] # "absent"}}

\* the states of the five keys, in the order of ConfigKeys
FileChoices ==
    KeyStates \X KeyStates \X KeyStates \X {"absent", "value"} \X KeyStates

EnvChoices ==
    KeyStates \X KeyStates \X KeyStates \X {"absent", "value"} \X {"absent", "value"}

----------------------------------------------------------------------------
(* The S3 client, as the script sees it *)

\* How a call ends: the exception class raised ("none": it returned), the
\* error response a ClientError carries, the requests it sent before ending.
Outcome(c, r, n) == [class |-> c, response |-> r, sent |-> n]

\* e.response of a ClientError: a code, an Error without a Code, no Error
Responses ==
    {{<<"Error", {<<"Code", c>>}>>} : c \in {"404", "403", "500"}}
    \cup {{<<"Error", EmptyDict>>}, EmptyDict}

\* boto3.client(...): it returns a client or raises (a malformed endpoint)
ClientOutcomes == {Outcome("none", EmptyDict, 0), Outcome("OtherError", EmptyDict, 0)}

\* s3_client.upload_file(file_path, ...): a missing local file is found
\* before anything is sent; otherwise the transfer succeeds or raises
UploadFileOutcomes(path, dsk) ==
    IF path \notin dsk
    THEN {Outcome("FileNotFoundError", EmptyDict, 0)}
    ELSE {Outcome("none", EmptyDict, 1),
          Outcome("NoCredentialsError", EmptyDict, 0),
          Outcome("ClientError", {<<"Error", {<<"Code", "403">>}>>}, 1),
          Outcome("OtherError", EmptyDict, 0),
          Outcome("OtherError", EmptyDict, 1)}

\* s3_client.head_bucket(Bucket=bucket_name)
HeadBucketOutcomes ==
    {Outcome("none", EmptyDict, 1),
     Outcome("NoCredentialsError", EmptyDict, 0),
     Outcome("OtherError", EmptyDict, 0),
     Outcome("OtherError", EmptyDict, 1)}
    \cup {Outcome("ClientError", r, 1) : r \in Responses}

\* the upload_file call upload_to_s3 makes
UploadCall(path, bucket, key) ==
    [op |-> "upload_file", Filename |-> path, Bucket |-> bucket, Key |-> key,
     ExtraArgs |-> {<<"StorageClass", "STANDARD">>}]

\* A faulty variant of HeadBucketCall: the connection is tested by
\* uploading a probe object.
HeadBucketCallWriting(bucket) ==
    [op |-> "upload_file", Filename |-> <<"probe">>, Bucket |-> bucket,
     Key |-> <<"probe">>, ExtraArgs |-> EmptyDict]

\* the head_bucket call test_s3_connection makes
HeadBucketCall(bucket) ==
    [op |-> "head_bucket", Filename |-> EmptyStr, Bucket |-> bucket,
     Key |-> EmptyStr, ExtraArgs |-> EmptyDict]

\* the object a successful upload_file call writes
WrittenBy(call) == [Bucket |-> call.Bucket, Key |-> call.Key]

----------------------------------------------------------------------------
(* The command-line run: mode "cli" *)

\* the remote store after a call that ended with outcome o
StoreAfter(st, call, o) ==
    IF call.op = "upload_file" /\ o.class = "none"
    THEN st \cup {WrittenBy(call)}
    ELSE st

\* A faulty variant of ExitStatus: the result of the operation is dropped.
ExitStatusAlwaysZero(success) == 0

\* __main__: 0 if success else 1
ExitStatus(success) == IF success = "True" THEN 0 ELSE 1

\* whether sys.argv asks for an upload
IsUploadArgv(a) == Len(a) >= 2 /\ a[2] # TestFlag

\* A run starts at __main__ with its arguments, config file and
\* environment; the file named on the command line exists or does not.
InitCliWith(argvs, files, envs) ==
    /\ mode = "cli"
    /\ pc = "main"
    /\ argv \in argvs
    /\ envFile \in files
    /\ environ \in envs
    /\ disk \in IF IsUploadArgv(argv) THEN {{}, {argv[2]}} ELSE {{}}
    /\ file_path = EmptyStr
    /\ s3_prefix = EmptyStr
    /\ cfg = NoCfg
    /\ cfgTest = NoCfg
    /\ clients = << >>
    /\ calls = << >>
    /\ requests = 0
    /\ store = {}
    /\ stdout = << >>
    /\ ret = "none"
    /\ exc = "none"
    /\ exitCode = -1
    /\ env_vars = EmptyDict
    /\ line = EmptyStr
    /\ nread = 0
    /\ s3_key = EmptyStr
    /\ op = "none"
    /\ outcomes = << >>

InitCli ==
    InitCliWith(ArgvForms,
                {NoFile} \cup {ConfigFile(ch) : ch \in FileChoices},
                {ChoiceDict(ch, EnvValue) : ch \in EnvChoices})

\* __main__: the dispatch on sys.argv
Main ==
    /\ mode = "cli" /\ pc = "main"
    /\ IF Len(argv) < 2
       THEN /\ stdout' = stdout \o <<"Usage: s3_upload.py <file_path> [s3_prefix]",
                                     "       s3_upload.py --test">>
            /\ exitCode' = 1
            /\ pc' = "exited"
            /\ UNCHANGED <<file_path, s3_prefix, op>>
       ELSE IF argv[2] = TestFlag
       THEN /\ op' = "test_s3_connection"
            /\ pc' = "test_resolve"
            /\ UNCHANGED <<stdout, exitCode, file_path, s3_prefix>>
       ELSE /\ op' = "upload_to_s3"
            /\ file_path' = argv[2]
            /\ s3_prefix' = IF Len(argv) > 2 THEN argv[3] ELSE EmptyStr
            /\ pc' = "upload_resolve"
            /\ UNCHANGED <<stdout, exitCode>>
    /\ UNCHANGED <<mode, argv, envFile, environ, disk, cfg, cfgTest, clients,
                   calls, requests, store, ret, exc, env_vars, line, nread,
                   s3_key, outcomes>>

\* upload_to_s3: load the config, resolve it, check the required keys
UploadResolve ==
    /\ mode = "cli" /\ pc = "upload_resolve"
    /\ env_vars' = load_env_file(envFile)
    /\ cfg' = ResolveUpload(env_vars', environ)
    /\ IF ~UploadCredentialsOk(cfg')
       THEN /\ stdout' = Append(stdout, "ERROR: S3 credentials not configured in .env")
            /\ ret' = "False"
            /\ pc' = "upload_return"
       ELSE /\ pc' = "upload_client"
            /\ UNCHANGED <<stdout, ret>>
    /\ UNCHANGED <<mode, argv, envFile, environ, disk, file_path, s3_prefix,
                   cfgTest, clients, calls, requests, store, exc, exitCode,
                   line, nread, s3_key, op, outcomes>>

\* upload_to_s3: the try around boto3.client
UploadCreateClient ==
    /\ mode = "cli" /\ pc = "upload_client"
    /\ \E o \in ClientOutcomes :
        LET h == Handler(UploadClientHandlers, o.class) IN
        /\ outcomes' = Append(outcomes, o)
        /\ IF o.class = "none"
           THEN /\ clients' = Append(clients, BuildClient(cfg))
                /\ pc' = "upload_file"
                /\ UNCHANGED <<stdout, ret, exc>>
           ELSE IF h # "none"
           THEN /\ stdout' = Append(stdout, "ERROR: Failed to create S3 client")
                /\ ret' = "False"
                /\ pc' = "upload_return"
                /\ UNCHANGED <<clients, exc>>
           ELSE /\ exc' = o.class
                /\ pc' = "uncaught"
                /\ UNCHANGED <<clients, stdout, ret>>
    /\ UNCHANGED <<mode, argv, envFile, environ, disk, file_path, s3_prefix,
                   cfg, cfgTest, calls, requests, store, exitCode, env_vars,
                   line, nread, s3_key, op>>

\* upload_to_s3: the key, the upload_file call and its except clauses
UploadFile ==
    /\ mode = "cli" /\ pc = "upload_file"
    /\ s3_key' = S3Key(s3_prefix, file_path)
    /\ calls' = Append(calls, UploadCall(file_path, cfg.bucket_name, s3_key'))
    /\ \E o \in UploadFileOutcomes(file_path, disk) :
        LET h == Handler(UploadHandlers, o.class) IN
        /\ outcomes' = Append(outcomes, o)
        /\ requests' = requests + o.sent
        /\ store' = StoreAfter(store, calls'[Len(calls')], o)
        /\ IF o.class = "none"
           THEN /\ stdout' = stdout \o <<"Uploading", "Upload successful">>
                /\ ret' = "True"
                /\ pc' = "upload_return"
                /\ UNCHANGED exc
           ELSE IF h # "none"
           THEN /\ stdout' = stdout \o <<"Uploading", UploadMessage(h)>>
                /\ ret' = "False"
                /\ pc' = "upload_return"
                /\ UNCHANGED exc
           ELSE /\ stdout' = Append(stdout, "Uploading")
                /\ exc' = o.class
                /\ pc' = "uncaught"
                /\ UNCHANGED ret
    /\ UNCHANGED <<mode, argv, envFile, environ, disk, file_path, s3_prefix,
                   cfg, cfgTest, clients, exitCode, env_vars, line, nread, op>>

\* __main__: sys.exit(0 if success else 1) after upload_to_s3
UploadExit ==
    /\ mode = "cli" /\ pc = "upload_return"
    /\ exitCode' = ExitStatus(ret)
    /\ pc' = "exited"
    /\ UNCHANGED <<mode, argv, envFile, environ, disk, file_path, s3_prefix,
                   cfg, cfgTest, clients, calls, requests, store, stdout, ret,
                   exc, env_vars, line, nread, s3_key, op, outcomes>>

\* test_s3_connection: load the config, resolve it, check the required keys
TestResolve ==
    /\ mode = "cli" /\ pc = "test_resolve"
    /\ env_vars' = load_env_file(envFile)
    /\ cfg' = ResolveTest(env_vars', environ)
    /\ IF ~TestCredentialsOk(cfg')
       THEN /\ stdout' = Append(stdout, "ERROR: S3 credentials not configured")
            /\ ret' = "False"
            /\ pc' = "test_return"
       ELSE /\ pc' = "test_connect"
            /\ UNCHANGED <<stdout, ret>>
    /\ UNCHANGED <<mode, argv, envFile, environ, disk, file_path, s3_prefix,
                   cfgTest, clients, calls, requests, store, exc, exitCode,
                   line, nread, s3_key, op, outcomes>>

\* test_s3_connection: how its try ends once the calls made in it ended as
\* in outs (the last one raised, or head_bucket returned)
TestConnectEnd(outs) ==
    LET o == outs[Len(outs)]
        h == Handler(TestHandlers, o.class) IN
    IF o.class = "none"
    THEN /\ stdout' = Append(stdout, "S3 connection successful")
         /\ ret' = "True"
         /\ pc' = "test_return"
         /\ UNCHANGED exc
    ELSE IF h # "none"
    THEN /\ stdout' = Append(stdout, TestMessage(h, o.response))
         /\ ret' = "False"
         /\ pc' = "test_return"
         /\ UNCHANGED exc
    ELSE /\ exc' = o.class
         /\ pc' = "uncaught"
         /\ UNCHANGED <<stdout, ret>>

\* test_s3_connection: the try with boto3.client and head_bucket, and its
\* except clauses
TestConnect ==
    /\ mode = "cli" /\ pc = "test_connect"
    /\ \E b \in ClientOutcomes :
        IF b.class # "none"
        THEN /\ outcomes' = Append(outcomes, b)
             /\ TestConnectEnd(outcomes')
             /\ UNCHANGED <<clients, calls, requests, store>>
        ELSE \E o \in HeadBucketOutcomes :
             /\ clients' = Append(clients, BuildClient(cfg))
             /\ calls' = Append(calls, HeadBucketCall(cfg.bucket_name))
             /\ outcomes' = outcomes \o <<b, o>>
             /\ requests' = requests + o.sent
             /\ store' = StoreAfter(store, calls'[Len(calls')], o)
             /\ TestConnectEnd(outcomes')
    /\ UNCHANGED <<mode, argv, envFile, environ, disk, file_path, s3_prefix,
                   cfg, cfgTest, exitCode, env_vars, line, nread, s3_key, op>>

\* __main__: sys.exit(0 if success else 1) after test_s3_connection
TestExit ==
    /\ mode = "cli" /\ pc = "test_return"
    /\ exitCode' = ExitStatus(ret)
    /\ pc' = "exited"
    /\ UNCHANGED <<mode, argv, envFile, environ, disk, file_path, s3_prefix,
                   cfg, cfgTest, clients, calls, requests, store, stdout, ret,
                   exc, env_vars, line, nread, s3_key, op, outcomes>>

\* An exception no except clause caught leaves the operation and the
\* script: the interpreter prints the traceback and exits with status 1.
Uncaught ==
    /\ mode = "cli" /\ pc = "uncaught"
    /\ stdout' = Append(stdout, "Traceback (most recent call last)")
    /\ exitCode' = 1
    /\ pc' = "exited"
    /\ UNCHANGED <<mode, argv, envFile, environ, disk, file_path, s3_prefix,
                   cfg, cfgTest, clients, calls, requests, store, ret, exc,
                   env_vars, line, nread, s3_key, op, outcomes>>

Next ==
    \/ Main
    \/ UploadResolve
    \/ UploadCreateClient
    \/ UploadFile
    \/ UploadExit
    \/ TestResolve
    \/ TestConnect
    \/ TestExit
    \/ Uncaught

Spec == InitCli /\ [][Next]_vars

----------------------------------------------------------------------------
(* load_env_file read line by line: mode "load" *)

MaxLineLen == 2

MaxLines == 2

\* the characters of a config line that the loader tells apart
LineAlphabet == {" ", "=", "#", "k"}

\* the strs over alphabet a of length at most n
StrsUpTo(a, n) == UNION {[1..m -> a] : m \in 0..n}

\* longer lines of the shapes a config file has: a key and a value with
\* whitespace around them and a "=" in the value, an indented comment, a
\* key with an empty value
SampleLines ==
    {<<" ", "k", " ", "=", " ", "k", "=", "k", " ">>,
     <<" ", "#", "k", "=", "k">>,
     <<"k", "k", " ", "=">>}

\* a line as the file iterator yields it, its newline at the end
FileLinesRead ==
    {l \o <<"\n">> : l \in StrsUpTo(LineAlphabet, MaxLineLen) \cup SampleLines}

InitLoad ==
    /\ mode = "load"
    /\ pc = "open"
    /\ argv = <<ScriptName>>
    /\ envFile \in {NoFile, [exists |-> TRUE, lines |-> << >>]}
    /\ environ = EmptyDict
    /\ disk = {}
    /\ file_path = EmptyStr
    /\ s3_prefix = EmptyStr
    /\ cfg = NoCfg
    /\ cfgTest = NoCfg
    /\ clients = << >>
    /\ calls = << >>
    /\ requests = 0
    /\ store = {}
    /\ stdout = << >>
    /\ ret = "none"
    /\ exc = "none"
    /\ exitCode = -1
    /\ env_vars = EmptyDict
    /\ line = EmptyStr
    /\ nread = 0
    /\ s3_key = EmptyStr
    /\ op = "none"
    /\ outcomes = << >>

notLoad == <<mode, argv, environ, disk, file_path, s3_prefix, cfg, cfgTest,
             clients, calls, requests, store, stdout, ret, exc, exitCode, s3_key,
             op, outcomes>>

\* load_env_file: env_vars = {} and the test os.path.exists(env_path)
LoadOpen ==
    /\ mode = "load" /\ pc = "open"
    /\ env_vars' = EmptyDict
    /\ pc' = IF envFile.exists THEN "reading" ELSE "returned"
    /\ UNCHANGED <<envFile, line, nread>>
    /\ UNCHANGED notLoad

\* load_env_file: one turn of "for line in f"
LoadLine ==
    /\ mode = "load" /\ pc = "reading"
    /\ nread < MaxLines
    /\ \E l \in FileLinesRead :
        /\ line' = l
        /\ env_vars' = ProcessLine(env_vars, l)
        /\ UNCHANGED envFile
    /\ nread' = nread + 1
    /\ pc' = "reading"
    /\ UNCHANGED notLoad

\* load_env_file: the file is at its end, return env_vars
LoadReturn ==
    /\ mode = "load" /\ pc = "reading"
    /\ pc' = "returned"
    /\ UNCHANGED <<envFile, env_vars, line, nread>>
    /\ UNCHANGED notLoad

NextLoad ==
    \/ LoadOpen
    \/ LoadLine
    \/ LoadReturn

SpecLoad == InitLoad /\ [][NextLoad]_vars

----------------------------------------------------------------------------
(* The two resolutions applied to one input: mode "resolve" *)

\* every state of the five keys in the loaded mapping and in os.environ
AllChoices == KeyStates \X KeyStates \X KeyStates \X KeyStates \X KeyStates

InitResolve ==
    /\ mode = "resolve"
    /\ pc = "resolve_upload"
    /\ argv = <<ScriptName>>
    /\ envFile = NoFile
    /\ environ \in {ChoiceDict(ch, EnvValue) : ch \in AllChoices}
    /\ disk = {}
    /\ file_path = EmptyStr
    /\ s3_prefix = EmptyStr
    /\ cfg = NoCfg
    /\ cfgTest = NoCfg
    /\ clients = << >>
    /\ calls = << >>
    /\ requests = 0
    /\ store = {}
    /\ stdout = << >>
    /\ ret = "none"
    /\ exc = "none"
    /\ exitCode = -1
    /\ env_vars \in {ChoiceDict(ch, FileValue) : ch \in AllChoices}
    /\ line = EmptyStr
    /\ nread = 0
    /\ s3_key = EmptyStr
    /\ op = "none"
    /\ outcomes = << >>

notResolve == <<mode, argv, envFile, environ, disk, file_path, s3_prefix,
                clients, calls, requests, store, stdout, ret, exc, exitCode,
                env_vars, line, nread, s3_key, op, outcomes>>

\* upload_to_s3's resolution of the loaded mapping and the environment
ResolveAsUpload ==
    /\ mode = "resolve" /\ pc = "resolve_upload"
    /\ cfg' = ResolveUpload(env_vars, environ)
    /\ pc' = "resolve_test"
    /\ UNCHANGED cfgTest
    /\ UNCHANGED notResolve

\* test_s3_connection's resolution of the same mapping and environment
ResolveAsTest ==
    /\ mode = "resolve" /\ pc = "resolve_test"
    /\ cfgTest' = ResolveTest(env_vars, environ)
    /\ pc' = "resolved"
    /\ UNCHANGED cfg
    /\ UNCHANGED notResolve

NextResolve ==
    \/ ResolveAsUpload
    \/ ResolveAsTest

SpecResolve == InitResolve /\ [][NextResolve]_vars

----------------------------------------------------------------------------
(* The command-line run over every short path and prefix *)

MaxPathLen == 4

MaxPrefixLen == 2

\* the atoms of a path: the separator, the dot, two name fragments
PathAlphabet == {"/", ".", "a", "b"}

PrefixAlphabet == {"/", "p"}

KeyArgvForms ==
    {<<ScriptName>>, <<ScriptName, TestFlag>>}
    \cup {<<ScriptName, p>> : p \in StrsUpTo(PathAlphabet, MaxPathLen)}
    \cup {<<ScriptName, p, x>> : p \in StrsUpTo(PathAlphabet, MaxPathLen),
                                 x \in StrsUpTo(PrefixAlphabet, MaxPrefixLen)}

\* the required keys configured, the bucket by the file or by the environment
KeyFileChoices ==
    {<<"value", "value", "value", "absent", "absent">>,
     <<"value", "value", "absent", "absent", "absent">>}

KeyEnvChoices == {<<"absent", "absent", "value", "absent", "absent">>}

InitKey ==
    InitCliWith(KeyArgvForms,
                {ConfigFile(ch) : ch \in KeyFileChoices},
                {ChoiceDict(ch, EnvValue) : ch \in KeyEnvChoices})

SpecKey == InitKey /\ [][Next]_vars

----------------------------------------------------------------------------
(* Properties *)

Range(f) == {f[i] : i \in DOMAIN f}

\* the value the config file gives key k, None when the file has no such key
FileGives(k) == DictGet(load_env_file(envFile), k, None)

\* key k is missing or empty in the config file and in the environment
MissingInBoth(k) == ~Truthy(FileGives(k)) /\ ~Truthy(getenv(environ, k))

CredentialsConfigured == \A k \in RequiredKeys : ~MissingInBoth(k)

Returned == pc \in {"upload_return", "test_return", "exited"} /\ ret # "none"

SomeCallFailed == \E i \in 1..Len(outcomes) : outcomes[i].class # "none"

\* C1: every failure of upload_to_s3 (of client construction or of the
\* upload call) is caught inside it: it returns False and no exception
\* propagates out of the operation.
C1_UploadFailuresCaught ==
    op = "upload_to_s3" =>
        /\ exc = "none"
        /\ pc # "uncaught"
        /\ (Returned /\ SomeCallFailed => ret = "False")

\* C2: the process exits with 0 exactly when the dispatched operation
\* returned True and with 1 otherwise; <file> and <file> <prefix> dispatch
\* to upload_to_s3, --test to test_s3_connection; without arguments nothing
\* is dispatched, the usage is printed and the exit code is 1.
C2_ExitCode ==
    /\ pc # "exited" => exitCode = -1
    /\ pc = "exited" =>
        /\ exitCode \in {0, 1}
        /\ exitCode = 0 <=> ret = "True"
        /\ op = IF Len(argv) < 2 THEN "none"
                ELSE IF argv[2] = TestFlag THEN "test_s3_connection"
                ELSE "upload_to_s3"
        /\ op = "upload_to_s3" =>
            /\ file_path = argv[2]
            /\ s3_prefix = IF Len(argv) > 2 THEN argv[3] ELSE EmptyStr
        /\ Len(argv) < 2 =>
            /\ exitCode = 1
            /\ ret = "none"
            /\ Len(stdout) = 2
            /\ clients = << >> /\ calls = << >> /\ cfg = NoCfg

C2_Witness ==
    /\ pc = "exited" /\ exitCode = 0
    /\ op = "upload_to_s3" /\ Len(argv) = 3

\* C3: with a required key missing or empty in both the config file and
\* the environment, either operation returns False at once: no client is
\* built and no call is made on one.
C3_NoClientWithoutCredentials ==
    op # "none" /\ ~CredentialsConfigured =>
        /\ clients = << >> /\ calls = << >> /\ outcomes = << >>
        /\ requests = 0
        /\ pc \in {"upload_resolve", "test_resolve", "upload_return",
                   "test_return", "exited"}
        /\ pc \in {"upload_return", "test_return", "exited"} => ret = "False"

C3_Witness ==
    /\ pc = "exited" /\ op = "upload_to_s3" /\ ret = "False"
    /\ MissingInBoth(S3_BUCKET_NAME)
    /\ ~MissingInBoth(S3_ACCESS_KEY_ID) /\ ~MissingInBoth(S3_SECRET_ACCESS_KEY)

FileMissing == op = "upload_to_s3" /\ file_path \notin disk

\* C4 as claimed: an upload of a file that does not exist returns False,
\* prints "File not found" and sends nothing, in every configuration state.
C4_FileNotFoundAlways ==
    FileMissing /\ pc = "exited" =>
        /\ ret = "False"
        /\ "ERROR: File not found" \in Range(stdout)
        /\ requests = 0

\* C4: an upload of a file that does not exist returns False and sends
\* nothing, in every configuration state; it prints "File not found" when
\* the required keys are configured and the client was built, the
\* credentials message when they are not configured, and the
\* client-construction message when the client could not be built.
C4_FileNotFound ==
    FileMissing =>
        /\ requests = 0 /\ store = {}
        /\ exc = "none" /\ pc # "uncaught"
        /\ pc \in {"upload_return", "exited"} =>
            /\ ret = "False"
            /\ "ERROR: File not found" \in Range(stdout) <=> clients # << >>
            /\ "ERROR: S3 credentials not configured in .env" \in Range(stdout)
                   <=> ~CredentialsConfigured
            /\ "ERROR: Failed to create S3 client" \in Range(stdout)
                   <=> CredentialsConfigured /\ clients = << >>

C4_Witness ==
    /\ FileMissing /\ pc = "exited" /\ Len(argv) = 3
    /\ stdout[Len(stdout)] = "ERROR: File not found"
    /\ Len(calls) = 1 /\ requests = 0

\* C5: the region the client is built with is the config file's S3_REGION,
\* else the environment's S3_REGION, else "ru-central1".
C5_RegionPrecedence ==
    \A i \in 1..Len(clients) :
        clients[i].region_name =
            PyOr(FileGives(S3_REGION), PyOr(getenv(environ, S3_REGION), DefaultRegion))

\* the field of a resolved configuration that key k sets
CfgField(c, k) ==
    CASE k = S3_ACCESS_KEY_ID     -> c.access_key
      [] k = S3_SECRET_ACCESS_KEY -> c.secret_key
      [] k = S3_BUCKET_NAME       -> c.bucket_name
      [] k = S3_ENDPOINT_URL      -> c.endpoint_url
      [] k = S3_REGION            -> c.region

\* the value of key k in dict d, None when d has no such key
ValueIn(d, k) ==
    IF \E p \in d : p[1] = k THEN (CHOOSE p \in d : p[1] = k)[2] ELSE None

\* C6 as claimed: each of the four keys resolves to the file's value when
\* the file has the key (an empty value included) and to the environment's
\* only when it has not; both operations resolve alike.
C6_FileAlwaysWins ==
    pc = "resolved" =>
        \A k \in FallbackKeys :
            /\ CfgField(cfg, k) = IF \E p \in env_vars : p[1] = k
                                  THEN ValueIn(env_vars, k)
                                  ELSE ValueIn(environ, k)
            /\ CfgField(cfgTest, k) = CfgField(cfg, k)

\* C6: each of the four keys resolves to the file's value when the file
\* has the key with a non-empty value, and otherwise to the environment
\* variable of the same name (None when it is unset); both operations
\* resolve alike.
C6_Fallback ==
    /\ pc \in {"resolve_test", "resolved"} =>
        \A k \in FallbackKeys :
            CfgField(cfg, k) = IF \E p \in env_vars : p[1] = k /\ p[2] # EmptyStr
                               THEN ValueIn(env_vars, k)
                               ELSE ValueIn(environ, k)
    /\ pc = "resolved" => cfgTest = cfg

C6_Witness ==
    /\ pc = "resolved"
    /\ <<S3_BUCKET_NAME, EmptyStr>> \in env_vars
    /\ <<S3_BUCKET_NAME, EnvValue(S3_BUCKET_NAME)>> \in environ
    /\ cfg.bucket_name = EnvValue(S3_BUCKET_NAME)
    /\ cfgTest.bucket_name = EnvValue(S3_BUCKET_NAME)

\* the error response r carries the code c
HasCode(r, c) == \E p \in r : p[1] = "Error" /\ <<"Code", c>> \in p[2]

\* what test_s3_connection is to print for a call that ended with o
ConnectionMessage(o) ==
    IF o.class # "ClientError" THEN "ERROR: Failed to connect to S3"
    ELSE IF HasCode(o.response, "404") THEN "ERROR: Bucket not found"
    ELSE IF HasCode(o.response, "403") THEN "ERROR: Access denied to bucket"
    ELSE "ERROR: S3 connection failed"

\* C7: test_s3_connection returns True only when head_bucket completed
\* without error and False for every error; it prints the not-found
\* message for code 404, the access-denied message for 403, the generic
\* connection-failed message for any other or missing code, and the
\* failed-to-connect message for any other exception; none propagates.
C7_TestConnection ==
    op = "test_s3_connection" =>
        /\ exc = "none" /\ pc # "uncaught"
        /\ pc \in {"test_return", "exited"} =>
            /\ ret \in {"True", "False"}
            /\ ret = "True" <=>
                /\ Len(outcomes) = 2 /\ outcomes[2].class = "none"
                /\ Len(calls) = 1 /\ calls[1].op = "head_bucket"
            /\ SomeCallFailed =>
                stdout[Len(stdout)] = ConnectionMessage(outcomes[Len(outcomes)])

C7_Witness ==
    /\ pc = "exited" /\ op = "test_s3_connection" /\ ret = "False"
    /\ Len(outcomes) = 2 /\ outcomes[2].class = "ClientError"
    /\ HasCode(outcomes[2].response, "404")
    /\ stdout = <<"ERROR: Bucket not found">>

\* The segments of a path: the places <<i, j>> of its maximal runs of
\* atoms other than "/", the run "." excepted.
Components(path) ==
    {r \in (1..Len(path)) \X (1..Len(path)) :
        /\ r[1] <= r[2]
        /\ \A k \in r[1]..r[2] : path[k] # "/"
        /\ r[1] = 1 \/ path[r[1] - 1] = "/"
        /\ r[2] = Len(path) \/ path[r[2] + 1] = "/"
        /\ SubSeq(path, r[1], r[2]) # <<".">>}

\* n is the final component of path (the empty str when it has none)
IsFinalComponent(path, n) ==
    IF Components(path) = {} THEN n = EmptyStr
    ELSE \E r \in Components(path) :
        /\ \A q \in Components(path) : q[1] <= r[1]
        /\ n = SubSeq(path, r[1], r[2])

\* C8: the key passed to upload_file is the prefix followed at once by the
\* final component of the file path; the file path and the resolved bucket
\* name are passed as they are.
C8_ObjectKey ==
    \A i \in 1..Len(calls) :
        calls[i].op = "upload_file" =>
            LET prefix == IF Len(argv) > 2 THEN argv[3] ELSE EmptyStr
                n == SubSeq(calls[i].Key, Len(prefix) + 1, Len(calls[i].Key))
            IN  /\ Len(calls[i].Key) >= Len(prefix)
                /\ SubSeq(calls[i].Key, 1, Len(prefix)) = prefix
                /\ IsFinalComponent(argv[2], n)
                /\ calls[i].Filename = argv[2]
                /\ calls[i].Bucket = PyOr(FileGives(S3_BUCKET_NAME),
                                          getenv(environ, S3_BUCKET_NAME))

C8_Witness ==
    /\ pc = "exited" /\ ret = "True"
    /\ argv = <<ScriptName, <<"a", "/", "b">>, <<"p", "/">>>>
    /\ calls[1].Key = <<"p", "/", "b">>

\* C9: a run of upload_to_s3 that returns True made exactly one upload_file
\* call and wrote exactly one object; one that does not return True wrote
\* none and made at most one call; a run of test_s3_connection writes none.
C9_StoreFrame ==
    /\ Len(calls) <= 1
    /\ op = "upload_to_s3" /\ ret = "True" =>
        /\ Len(calls) = 1 /\ calls[1].op = "upload_file"
        /\ Cardinality(store) = 1
        /\ store = {[Bucket |-> calls[1].Bucket, Key |-> calls[1].Key]}
    /\ op = "upload_to_s3" /\ ret # "True" => store = {}
    /\ op = "test_s3_connection" =>
        /\ store = {}
        /\ \A i \in 1..Len(calls) : calls[i].op = "head_bucket"
    /\ op = "none" => store = {} /\ calls = << >>

C9_Witness ==
    /\ pc = "exited" /\ op = "upload_to_s3" /\ ret = "True"
    /\ Cardinality(store) = 1 /\ requests = 1

\* s without its leading and trailing whitespace
Trimmed(s) ==
    LET inked == {i \in 1..Len(s) : s[i] \notin Whitespace} IN
    IF inked = {} THEN EmptyStr
    ELSE SubSeq(s, CHOOSE i \in inked : \A j \in inked : i <= j,
                   CHOOSE i \in inked : \A j \in inked : j <= i)

\* the entry a line contributes: it is split at its first "="
EntryOf(l) ==
    LET t == Trimmed(l)
        eqs == {i \in 1..Len(t) : t[i] = "="} IN
    IF eqs = {} THEN <<t, EmptyStr>>
    ELSE LET e == CHOOSE i \in eqs : \A j \in eqs : i <= j IN
         <<Trimmed(SubSeq(t, 1, e - 1)), Trimmed(SubSeq(t, e + 1, Len(t)))>>

\* the mapping once line l is read into mapping d
AfterLine(d, l) ==
    IF Trimmed(l) = EmptyStr \/ Trimmed(l)[1] = "#" THEN d
    ELSE {p \in d : p[1] # EntryOf(l)[1]} \cup {EntryOf(l)}

\* C10: a line that is empty or starts with "#" once trimmed adds no
\* entry; any other line is split at its first "=" and sets trimmed key to
\* trimmed value; a file that does not exist yields the empty mapping.
C10_LoadEnvFile ==
    /\ [](pc = "returned" /\ ~envFile.exists => env_vars = EmptyDict /\ nread = 0)
    /\ [](\A p \in env_vars : \A q \in env_vars : p[1] = q[1] => p = q)
    /\ [][nread' = nread + 1 => env_vars' = AfterLine(env_vars, line')]_vars
    /\ [][pc' = "returned" /\ pc = "reading" => env_vars' = env_vars]_vars

C10_Witness ==
    /\ pc = "returned" /\ nread = 2
    /\ line = <<" ", "k", " ", "=", " ", "k", "=", "k", " ", "\n">>
    /\ env_vars = {<<<<"k">>, <<"k", "=", "k">>>>, <<<<"k", "k">>, EmptyStr>>}

====
